---- MODULE Spec2Model ----
(***************************************************************************)
(* skelatool64 animation generator                                         *)
(* (src/skelatool64/src/definition_generator/AnimationGenerator.cpp).      *)
(*                                                                         *)
(* Three entry points are modelled, each with its own specification:       *)
(*   SpecEval  evaluateVectorAt / evaluateQuaternionAt / findStartValue    *)
(*   SpecHier  findNodesForWithAnimation                                   *)
(*   Spec      generateAnimationForScene (generateAnimationData, the       *)
(*             header table, generateAnimationDataV2/generateanimationV2)  *)
(*                                                                         *)
(* Numbers.  Key times, durations and tick rates are integers; a query     *)
(* time and an interpolation factor are exact rationals <<n, d>>, d > 0.   *)
(* A vector is [x, y, z, d] and a quaternion [x, y, z, w, d]: integer      *)
(* numerators over one positive denominator.  Floating-point rounding of   *)
(* the C++ doubles/floats is not modelled.                                 *)
(***************************************************************************)
EXTENDS Integers, Sequences, FiniteSets, TLC

VARIABLES
    \* ---- KeyframeEvaluator (SpecEval) ----
    posKeys,        \* aiVectorKey[]  : sequence of [mTime, mValue]
    rotKeys,        \* aiQuatKey[]    : sequence of [mTime, mValue]
    eval,           \* locals and result of the last evaluate*At call
    \* ---- findNodesForWithAnimation (SpecHier) ----
    tree,           \* the aiScene: node parents, names, channels, meshes
    hier,           \* locals of findNodesForWithAnimation
    \* ---- generateAnimationForScene (Spec) ----
    scene,          \* mAnimations, the BoneHierarchy and the settings
    gen             \* locals, fileDefinition and outputs of the generator

vars == <<posKeys, rotKeys, eval, tree, hier, scene, gen>>

\* ------------------------------------------------------------------------
\* Bounds of the model
\* ------------------------------------------------------------------------
MaxKeys == 3
MaxTime == 3
MaxNodes == 4
MaxAnims == 2
MaxDuration == 2

\* std::numeric_limits<short>::max()
ShortMax == 32767

\* ------------------------------------------------------------------------
\* Arithmetic helpers
\* ------------------------------------------------------------------------
\* (short)(float): conversion truncates toward zero.  n/d with d > 0.
TruncDiv(n, d) == IF n >= 0 THEN n \div d ELSE -((-n) \div d)

\* ceil(n/d), d > 0
CeilDiv(n, d) == -((-n) \div d)

RatGe(a, b) == a[1] * b[2] >= b[1] * a[2]
RatEq(a, b) == a[1] * b[2] = b[1] * a[2]

\* ------------------------------------------------------------------------
\* aiVector3D / aiQuaternion (assimp value types)
\* ------------------------------------------------------------------------
Vec(x, y, z) == [x |-> x, y |-> y, z |-> z, d |-> 1]

\* aiVector3D(): the zero vector
VecZero == Vec(0, 0, 0)

VecEq(a, b) ==
    /\ a.x * b.d = b.x * a.d
    /\ a.y * b.d = b.y * a.d
    /\ a.z * b.d = b.z * a.d

\* (to - from) * lerp + from, lerp = <<n, d>>
VecLerp(from, to, l) ==
    LET fd == from.d * to.d * l[2]
        c(f, t) == (t * from.d - f * to.d) * l[1] + f * to.d * l[2]
    IN  [x |-> c(from.x, to.x), y |-> c(from.y, to.y), z |-> c(from.z, to.z), d |-> fd]

\* v * s for an integer s
VecScale(v, s) == [x |-> v.x * s, y |-> v.y * s, z |-> v.z * s, d |-> v.d]

Quat(x, y, z, w, d) == [x |-> x, y |-> y, z |-> z, w |-> w, d |-> d]

\* aiQuaternion(): the identity rotation, w = 1
QuatIdentity == Quat(0, 0, 0, 1, 1)

QuatNeg(q) == Quat(-q.x, -q.y, -q.z, -q.w, q.d)

QuatEq(a, b) ==
    /\ a.x * b.d = b.x * a.d
    /\ a.y * b.d = b.y * a.d
    /\ a.z * b.d = b.z * a.d
    /\ a.w * b.d = b.w * a.d

QuatDot(a, b) == a.x * b.x + a.y * b.y + a.z * b.z + a.w * b.w

IsUnit(q) == q.d > 0 /\ QuatDot(q, q) = q.d * q.d

\* aiQuaternion::operator* (Hamilton product a * b)
QuatMul(a, b) ==
    Quat(a.w * b.x + a.x * b.w + a.y * b.z - a.z * b.y,
         a.w * b.y + a.y * b.w + a.z * b.x - a.x * b.z,
         a.w * b.z + a.z * b.w + a.x * b.y - a.y * b.x,
         a.w * b.w - a.x * b.x - a.y * b.y - a.z * b.z,
         a.d * b.d)

\* aiQuaternion::Rotate(v) = q * (v, 0) * conj(q), for a unit q
QuatRotate(q, v) ==
    LET p == QuatMul(QuatMul(q, Quat(v.x, v.y, v.z, 0, v.d)),
                     Quat(-q.x, -q.y, -q.z, q.w, q.d))
    IN  [x |-> p.x, y |-> p.y, z |-> p.z, d |-> p.d]

(***************************************************************************)
(* A rotation value as the generator holds it.  aiQuaternion::Interpolate  *)
(* is spherical: for a factor strictly between 0 and 1 and distinct ends   *)
(* its components are not rational, so such a value is kept as the term    *)
(*     pre * slerp(a, b, f)                                                *)
(* (sym = TRUE).  A concrete value has sym = FALSE and pre the value.      *)
(***************************************************************************)
Rot(q) == [sym |-> FALSE, pre |-> q, a |-> QuatIdentity, b |-> QuatIdentity, f |-> <<0, 1>>]

\* aiQuaternion::Interpolate(out, pStart, pEnd, pFactor): the shortest path:
\* the end is negated when the dot product is negative.
Interpolate(pStart, pEnd, pFactor) ==
    LET end == IF QuatDot(pStart, pEnd) < 0 THEN QuatNeg(pEnd) ELSE pEnd
    IN  IF pFactor[1] = 0 THEN Rot(pStart)
        ELSE IF pFactor[1] = pFactor[2] THEN Rot(end)
        ELSE IF QuatEq(pStart, end) THEN Rot(pStart)
        ELSE [sym |-> TRUE, pre |-> QuatIdentity, a |-> pStart, b |-> end, f |-> pFactor]

\* constRot * rotation
RotPremul(c, r) == [r EXCEPT !.pre = QuatMul(c, r.pre)]

RotEq(r, s) ==
    /\ r.sym = s.sym
    /\ QuatEq(r.pre, s.pre)
    /\ r.sym => (QuatEq(r.a, s.a) /\ QuatEq(r.b, s.b) /\ RatEq(r.f, s.f))

\* ------------------------------------------------------------------------
\* findStartValue (lines 103-123)
\* ------------------------------------------------------------------------
\* keys[i] of the C array (0-based); a read outside the array is flagged.
InRange(keys, i) == i >= 0 /\ i < Len(keys)

KeyTime(keys, i) == IF InRange(keys, i) THEN keys[i + 1].mTime ELSE 0

\* lerp = (at - keys[startValue].mTime) / deltaTime
LerpAt(keys, s, at) ==
    LET deltaTime == KeyTime(keys, s + 1) - KeyTime(keys, s)
    IN  IF deltaTime = 1
        THEN [lerp |-> <<0, 1>>, divided |-> FALSE, deltaTime |-> deltaTime]
        ELSE [lerp |-> <<at[1] - KeyTime(keys, s) * at[2], at[2] * deltaTime>>,
              divided |-> TRUE, deltaTime |-> deltaTime]

\* The state of the loop at its exit: startValue, lerp, and what was read.
\* (FoundAt_NoDecrement: the same without the step back of line 110.)
FoundAt_NoDecrement(keys, i, at) ==
    IF i = 0
    THEN [startValue |-> 0, lerp |-> <<0, 1>>, divided |-> FALSE, deltaTime |-> 0]
    ELSE [startValue |-> i] @@ LerpAt(keys, i, at)

FoundAt(keys, i, at) ==
    IF i = 0
    THEN [startValue |-> 0, lerp |-> <<0, 1>>, divided |-> FALSE, deltaTime |-> 0]
    ELSE [startValue |-> i - 1] @@ LerpAt(keys, i - 1, at)

RECURSIVE FindLoop(_, _, _, _)
FindLoop(keys, keyCount, at, sv) ==
    IF sv >= keyCount
    THEN [startValue |-> sv, lerp |-> <<0, 1>>, divided |-> FALSE, deltaTime |-> 0]
    ELSE IF RatGe(<<KeyTime(keys, sv), 1>>, at)
         THEN FoundAt(keys, sv, at)
         ELSE FindLoop(keys, keyCount, at, sv + 1)

findStartValue(keys, keyCount, at) == FindLoop(keys, keyCount, at, 0)

\* ------------------------------------------------------------------------
\* evaluateVectorAt (125-147), evaluateQuaternionAt (149-174)
\* ------------------------------------------------------------------------
\* The set of values a call can return, with the locals it leaves.  A read
\* past the array (keys[startValue + 1]) is undefined, and a factor computed
\* by a division by zero is inf or NaN: the value returned is then any value.
VecGarbage == {VecZero, Vec(7, 7, 7)}

evaluateVectorAt(keys, keyCount, at) ==
    IF keyCount = 0 THEN {[fsv |-> [startValue |-> 0, lerp |-> <<0, 1>>, divided |-> FALSE, deltaTime |-> 0],
                           oob |-> FALSE, vec |-> VecZero]}
    ELSE IF keyCount = 1 THEN {[fsv |-> [startValue |-> 0, lerp |-> <<0, 1>>, divided |-> FALSE, deltaTime |-> 0],
                                oob |-> FALSE, vec |-> keys[1].mValue]}
    ELSE LET f == findStartValue(keys, keyCount, at)
             s == f.startValue
         IN  IF s = keyCount
             THEN {[fsv |-> f, oob |-> FALSE, vec |-> keys[keyCount].mValue]}
             ELSE IF InRange(keys, s) /\ InRange(keys, s + 1) /\ f.lerp[2] > 0
                  THEN {[fsv |-> f, oob |-> FALSE,
                         vec |-> VecLerp(keys[s + 1].mValue, keys[s + 2].mValue, f.lerp)]}
                  ELSE {[fsv |-> f, oob |-> ~(InRange(keys, s) /\ InRange(keys, s + 1)), vec |-> g] :
                            g \in VecGarbage}

QuatGarbage == {Rot(QuatIdentity), Rot(Quat(1, 0, 0, 0, 1))}

evaluateQuaternionAt(keys, keyCount, at) ==
    IF keyCount = 0 THEN {[fsv |-> [startValue |-> 0, lerp |-> <<0, 1>>, divided |-> FALSE, deltaTime |-> 0],
                           oob |-> FALSE, quat |-> Rot(QuatIdentity)]}
    ELSE IF keyCount = 1 THEN {[fsv |-> [startValue |-> 0, lerp |-> <<0, 1>>, divided |-> FALSE, deltaTime |-> 0],
                                oob |-> FALSE, quat |-> Rot(keys[1].mValue)]}
    ELSE LET f == findStartValue(keys, keyCount, at)
             s == f.startValue
         IN  IF s = keyCount
             THEN {[fsv |-> f, oob |-> FALSE, quat |-> Rot(keys[keyCount].mValue)]}
             ELSE IF InRange(keys, s) /\ InRange(keys, s + 1) /\ f.lerp[2] > 0
                  THEN {[fsv |-> f, oob |-> FALSE,
                         quat |-> Interpolate(keys[s + 1].mValue, keys[s + 2].mValue, f.lerp)]}
                  ELSE {[fsv |-> f, oob |-> ~(InRange(keys, s) /\ InRange(keys, s + 1)), quat |-> g] :
                            g \in QuatGarbage}

\* ------------------------------------------------------------------------
\* SpecEval: the evaluators, called on any track at any time
\* ------------------------------------------------------------------------
VecValues == <<Vec(0, 0, 0), Vec(2, 0, -4), Vec(-2, 4, 6)>>

QuatValues == <<QuatIdentity, Quat(1, 0, 0, 0, 1), Quat(-1, 0, 0, 0, 1)>>

\* non-decreasing key times (the AnimationTrack invariant)
NonDecreasing(ts) == \A i \in 1..(Len(ts) - 1) : ts[i] <= ts[i + 1]

TimeSeqs == UNION {{ts \in [1..n -> 0..MaxTime] : NonDecreasing(ts)} : n \in 0..MaxKeys}

\* query times: k and k + 1/2
QueryTimes == {<<k, 1>> : k \in 0..(MaxTime + 1)} \cup {<<2 * k + 1, 2>> : k \in 0..MaxTime}

NoFsv == [startValue |-> 0, lerp |-> <<0, 1>>, divided |-> FALSE, deltaTime |-> 0]

NoEval == [kind |-> "none", at |-> <<0, 1>>, fsv |-> NoFsv, oob |-> FALSE,
           vec |-> VecZero, quat |-> Rot(QuatIdentity)]

IdleEval == posKeys = <<>> /\ rotKeys = <<>> /\ eval = NoEval
IdleHier == tree = <<>> /\ hier = [pc |-> "idle"]
IdleGen == scene = <<>> /\ gen = [pc |-> "idle"]

InitEval ==
    /\ \E ts \in TimeSeqs : \E vi \in [1..Len(ts) -> 1..Len(VecValues)] :
          /\ posKeys = [i \in 1..Len(ts) |-> [mTime |-> ts[i], mValue |-> VecValues[vi[i]]]]
          /\ rotKeys = [i \in 1..Len(ts) |-> [mTime |-> ts[i], mValue |-> QuatValues[vi[i]]]]
    /\ eval = NoEval
    /\ IdleHier
    /\ IdleGen

CallEvaluateVectorAt ==
    /\ \E at \in QueryTimes : \E r \in evaluateVectorAt(posKeys, Len(posKeys), at) :
          eval' = [kind |-> "vector", at |-> at, fsv |-> r.fsv, oob |-> r.oob,
                   vec |-> r.vec, quat |-> Rot(QuatIdentity)]
    /\ UNCHANGED <<posKeys, rotKeys, tree, hier, scene, gen>>

CallEvaluateQuaternionAt ==
    /\ \E at \in QueryTimes : \E r \in evaluateQuaternionAt(rotKeys, Len(rotKeys), at) :
          eval' = [kind |-> "quat", at |-> at, fsv |-> r.fsv, oob |-> r.oob,
                   vec |-> VecZero, quat |-> r.quat]
    /\ UNCHANGED <<posKeys, rotKeys, tree, hier, scene, gen>>

NextEval == CallEvaluateVectorAt \/ CallEvaluateQuaternionAt

SpecEval == InitEval /\ [][NextEval]_vars

LastTime(keys) == keys[Len(keys)].mTime

(***************************************************************************)
(* C1.  For every key sequence with at least one key, evaluateVectorAt and *)
(* evaluateQuaternionAt called with at >= the time of the last key return  *)
(* exactly the value of the last key.                                      *)
(***************************************************************************)
C1_AtOrAfterLastKeyReturnsLastKey ==
    /\ (eval.kind = "vector" /\ Len(posKeys) >= 1
            /\ RatGe(eval.at, <<LastTime(posKeys), 1>>))
         => VecEq(eval.vec, posKeys[Len(posKeys)].mValue)
    /\ (eval.kind = "quat" /\ Len(rotKeys) >= 1
            /\ RatGe(eval.at, <<LastTime(rotKeys), 1>>))
         => RotEq(eval.quat, Rot(rotKeys[Len(rotKeys)].mValue))

(***************************************************************************)
(* C10.  For every key sequence of at least two keys with non-decreasing   *)
(* times and every query time, findStartValue never divides by a zero time *)
(* delta, the factor it produces lies in [0, 1], and when it leaves        *)
(* startValue < keyCount then startValue + 1 < keyCount: the evaluators    *)
(* never read past the last key.                                           *)
(***************************************************************************)
EvalKeyCount == IF eval.kind = "vector" THEN Len(posKeys) ELSE Len(rotKeys)

C10_FindStartValueSafe ==
    (eval.kind # "none" /\ EvalKeyCount >= 2) =>
        /\ eval.fsv.divided => eval.fsv.deltaTime # 0
        /\ eval.fsv.lerp[2] > 0
        /\ eval.fsv.lerp[1] >= 0
        /\ eval.fsv.lerp[1] <= eval.fsv.lerp[2]
        /\ eval.fsv.startValue < EvalKeyCount => eval.fsv.startValue + 1 < EvalKeyCount
        /\ ~eval.oob

\* a track with two keys at one time, queried between two other keys
C10_Witness ==
    /\ eval.kind = "vector"
    /\ Len(posKeys) >= 3
    /\ \E i \in 1..(Len(posKeys) - 1) : posKeys[i].mTime = posKeys[i + 1].mTime
    /\ eval.fsv.divided
    /\ eval.fsv.lerp[1] > 0
    /\ eval.fsv.lerp[1] < eval.fsv.lerp[2]

\* ------------------------------------------------------------------------
\* findNodesForWithAnimation (lines 10-74)
\* ------------------------------------------------------------------------
(***************************************************************************)
(* A node is its address: the numbers 1..n, 0 the null pointer.            *)
(* std::set<aiNode*> and std::map<const aiNode*, int> iterate in ascending *)
(* address order, and the tree is any rooted tree over the addresses, so   *)
(* the iteration order of the set is unrelated to the tree's shape.        *)
(* A matrix is the sequence of its factors, left to right: node k's        *)
(* mTransformation is <<k>>, the model-scale matrix <<0>>, and the         *)
(* identity <<>>; the product is concatenation.                            *)
(***************************************************************************)
NullNode == 0
ModelScaleMatrix == 0

\* a * b  (MatMul_Swapped: the factors in the other order)
MatMul_Swapped(a, b) == b \o a

MatMul(a, b) == a \o b

\* node->mChildren, in ascending address order
RECURSIVE SetToSeq(_)
SetToSeq(S) ==
    IF S = {} THEN <<>>
    ELSE LET m == CHOOSE x \in S : \A y \in S : x <= y
         IN  <<m>> \o SetToSeq(S \ {m})

Children(t, node) == SetToSeq({c \in 1..t.n : t.parent[c] = node})

\* forEachNode(root, callback): the nodes in the order the callback sees them
RECURSIVE forEachNode(_, _)
RECURSIVE VisitAll(_, _)
VisitAll(t, nodes) ==
    IF nodes = <<>> THEN <<>>
    ELSE forEachNode(t, Head(nodes)) \o VisitAll(t, Tail(nodes))

forEachNode(t, node) == <<node>> \o VisitAll(t, Children(t, node))

RootNode(t) == CHOOSE r \in 1..t.n : t.parent[r] = NullNode

\* lines 11-33: channel names of every animation, bones of the used meshes
UsedMeshes(t) == UNION {{t.nodeMeshes[u][i] : i \in 1..Len(t.nodeMeshes[u])} : u \in t.usedNodes}

CollectAnimatedNodeNames(t) ==
    t.channelNames \cup UNION {t.meshBones[m] : m \in UsedMeshes(t)}

\* lines 35-44: nodeOrder maps a node to the number of nodes seen before it
NodeOrderOf(t) ==
    LET order == forEachNode(t, RootNode(t))
    IN  [node \in 1..t.n |-> (CHOOSE i \in 1..Len(order) : order[i] = node) - 1]

NodesWithAnimationData(t, names) == {node \in 1..t.n : t.name[node] \in names}

\* lines 51-57: the walk up the ancestors
RECURSIVE WalkUp(_, _, _, _)
WalkUp(t, withData, currentNode, rel) ==
    IF t.parent[currentNode] # NullNode /\ t.parent[currentNode] \notin withData
    THEN WalkUp(t, withData, t.parent[currentNode],
                MatMul(<<t.parent[currentNode]>>, rel))
    ELSE [currentNode |-> currentNode, relativeTransform |-> rel]

\* lines 49-66: one AnimationNodeInfo
NodeInfoFor(t, withData, node) ==
    LET w == WalkUp(t, withData, node, <<>>)
        top == t.parent[w.currentNode]
    IN  [node |-> node,
         parent |-> top,
         relativeTransform |->
             IF top = NullNode
             THEN MatMul(<<ModelScaleMatrix>>, w.relativeTransform)
             ELSE w.relativeTransform]

\* lines 69-71: std::sort by nodeOrder (the keys are distinct)
RECURSIVE InsertByOrder(_, _, _)
InsertByOrder(order, sorted, e) ==
    IF sorted = <<>> THEN <<e>>
    ELSE IF order[e.node] < order[Head(sorted).node]
         THEN <<e>> \o sorted
         ELSE <<Head(sorted)>> \o InsertByOrder(order, Tail(sorted), e)

RECURSIVE SortFrom(_, _, _)
SortFrom(order, list, sorted) ==
    IF list = <<>> THEN sorted
    ELSE SortFrom(order, Tail(list), InsertByOrder(order, sorted, Head(list)))

\* (SortByNodeOrder_Unsorted: the list as the loop over the set left it)
SortByNodeOrder_Unsorted(order, list) == list

SortByNodeOrder(order, list) == SortFrom(order, list, <<>>)

\* ------------------------------------------------------------------------
\* SpecHier
\* ------------------------------------------------------------------------
NodeNames == {"a", "b"}

\* the rooted trees over the addresses 1..n
RECURSIVE ReachesRoot(_, _, _, _)
ReachesRoot(par, n, node, fuel) ==
    IF par[node] = NullNode THEN TRUE
    ELSE IF fuel = 0 THEN FALSE
    ELSE ReachesRoot(par, n, par[node], fuel - 1)

IsTree(par, n) ==
    /\ Cardinality({r \in 1..n : par[r] = NullNode}) = 1
    /\ \A node \in 1..n : par[node] # node /\ ReachesRoot(par, n, node, n)

Trees(n) == {par \in [1..n -> 0..n] : IsTree(par, n)}

\* one mesh, with bones "b" and "c", drawn by node 1; the channels of the
\* scene's animations target "a", "a" and "x", or nothing
MeshBones == <<{"b", "c"}>>

ChannelNameSets == {{}, {"a"}, {"a", "x"}}

InitHier ==
    /\ \E n \in 1..MaxNodes : \E par \in Trees(n) : \E nm \in [1..n -> NodeNames] :
       \E ch \in ChannelNameSets : \E used \in SUBSET {1} :
          tree = [n |-> n, parent |-> par, name |-> nm, channelNames |-> ch,
                  meshBones |-> MeshBones,
                  nodeMeshes |-> [k \in 1..n |-> IF k = 1 THEN <<1>> ELSE <<>>],
                  usedNodes |-> used]
    /\ hier = [pc |-> "names", animatedNodeNames |-> {}, nodeOrder |-> <<>>,
               nodesWithAnimationData |-> {}, next |-> 0, nodesWithAnimation |-> <<>>]
    /\ IdleEval
    /\ IdleGen

\* lines 11-33
CollectNames ==
    /\ hier.pc = "names"
    /\ hier' = [hier EXCEPT !.pc = "visit",
                            !.animatedNodeNames = CollectAnimatedNodeNames(tree)]
    /\ UNCHANGED <<posKeys, rotKeys, eval, tree, scene, gen>>

\* lines 35-46
VisitNodes ==
    /\ hier.pc = "visit"
    /\ hier' = [hier EXCEPT !.pc = "resolve",
                            !.nodeOrder = NodeOrderOf(tree),
                            !.nodesWithAnimationData =
                                NodesWithAnimationData(tree, hier.animatedNodeNames),
                            !.next = 1]
    /\ UNCHANGED <<posKeys, rotKeys, eval, tree, scene, gen>>

\* lines 48-67: one iteration of the loop over the set, in address order
ResolveNode ==
    /\ hier.pc = "resolve"
    /\ \E node \in hier.nodesWithAnimationData :
          /\ node >= hier.next
          /\ \A other \in hier.nodesWithAnimationData : other >= hier.next => node <= other
          /\ hier' = [hier EXCEPT
                 !.next = node + 1,
                 !.nodesWithAnimation =
                     Append(@, NodeInfoFor(tree, hier.nodesWithAnimationData, node))]
    /\ UNCHANGED <<posKeys, rotKeys, eval, tree, scene, gen>>

\* lines 69-73
SortAndReturn ==
    /\ hier.pc = "resolve"
    /\ \A node \in hier.nodesWithAnimationData : node < hier.next
    /\ hier' = [hier EXCEPT !.pc = "done",
                            !.nodesWithAnimation = SortByNodeOrder(hier.nodeOrder, @)]
    /\ UNCHANGED <<posKeys, rotKeys, eval, tree, scene, gen>>

NextHier == CollectNames \/ VisitNodes \/ ResolveNode \/ SortAndReturn

SpecHier == InitHier /\ [][NextHier]_vars

\* What the claims speak of, stated on the input tree alone.
RelevantNames == tree.channelNames \cup (IF 1 \in tree.usedNodes THEN tree.meshBones[1] ELSE {})

RelevantNodes == {node \in 1..tree.n : tree.name[node] \in RelevantNames}

\* the strict ancestors of a node, nearest first
RECURSIVE AncestorsOf(_)
AncestorsOf(node) ==
    IF tree.parent[node] = NullNode THEN <<>>
    ELSE <<tree.parent[node]>> \o AncestorsOf(tree.parent[node])

Reverse(q) == [i \in 1..Len(q) |-> q[Len(q) + 1 - i]]

\* the depth-first visitation index of a node
VisitIndex(node) ==
    LET order == forEachNode(tree, RootNode(tree))
    IN  CHOOSE i \in 1..Len(order) : order[i] = node

(***************************************************************************)
(* C4.  For every node the result lists, the recorded parent is the        *)
(* nearest strict ancestor that is relevant (null when there is none), and *)
(* the relative transform is the product of the local transforms of        *)
(* exactly the non-relevant strict ancestors between the node and that     *)
(* parent, outermost leftmost, with the model-scale matrix as the          *)
(* outermost factor if and only if no ancestor is relevant.                *)
(***************************************************************************)
C4_ParentAndRelativeTransform ==
    hier.pc = "done" =>
        \A k \in 1..Len(hier.nodesWithAnimation) :
            LET e == hier.nodesWithAnimation[k]
                anc == AncestorsOf(e.node)
                rel == {i \in 1..Len(anc) : anc[i] \in RelevantNodes}
            IN  IF rel = {}
                THEN /\ e.parent = NullNode
                     /\ e.relativeTransform = <<ModelScaleMatrix>> \o Reverse(anc)
                ELSE LET first == CHOOSE i \in rel : \A j \in rel : i <= j
                     IN  /\ e.parent = anc[first]
                         /\ e.relativeTransform = Reverse(SubSeq(anc, 1, first - 1))

\* a node two irrelevant ancestors below a relevant one, and a node two
\* irrelevant ancestors below the root
C4_Witness ==
    /\ hier.pc = "done"
    /\ \E k \in 1..Len(hier.nodesWithAnimation) :
          /\ hier.nodesWithAnimation[k].parent # NullNode
          /\ Len(hier.nodesWithAnimation[k].relativeTransform) = 2
    /\ tree.n >= 3

(***************************************************************************)
(* C5.  The result lists exactly the nodes whose name is a channel target  *)
(* or a bone of a used mesh, each once, in strictly increasing depth-first *)
(* visitation index, whatever the iteration order of the internal set.     *)
(***************************************************************************)
C5_ExactlyRelevantInVisitOrder ==
    hier.pc = "done" =>
        LET out == hier.nodesWithAnimation
        IN  /\ {out[k].node : k \in 1..Len(out)} = RelevantNodes
            /\ Len(out) = Cardinality(RelevantNodes)
            /\ \A i, j \in 1..Len(out) :
                   i < j => VisitIndex(out[i].node) < VisitIndex(out[j].node)

\* three nodes listed, in an order that is not the set's iteration order
C5_Witness ==
    /\ hier.pc = "done"
    /\ Len(hier.nodesWithAnimation) >= 3
    /\ Cardinality(RelevantNodes) < tree.n
    /\ \E i, j \in 1..Len(hier.nodesWithAnimation) :
          i < j /\ hier.nodesWithAnimation[i].node > hier.nodesWithAnimation[j].node

\* ------------------------------------------------------------------------
\* generateAnimationForScene (lines 265-346) and what it calls
\* ------------------------------------------------------------------------
(***************************************************************************)
(* A name is a sequence of strings, concatenated when written out.         *)
(* A bone is [name, parent], parent the index of the parent bone or        *)
(* NoParent for a null GetParent().                                        *)
(***************************************************************************)
NoParent == -1

\* CFileDefinition::GetUniqueName: the name itself, or the name with the
\* first numeric suffix that is not taken.
UniqueSuffix(used, name) ==
    CHOOSE k \in 1..(Cardinality(used) + 1) :
        /\ Append(name, ToString(k)) \notin used
        /\ \A j \in 1..(k - 1) : Append(name, ToString(j)) \in used

GetUniqueName(used, name) ==
    IF name \notin used THEN name ELSE Append(name, ToString(UniqueSuffix(used, name)))

\* ::toupper over a name
UpperOf(str) ==
    CASE str = "walk" -> "WALK"
      [] str = "run" -> "RUN"
      [] str = "idle" -> "IDLE"
      [] str = "default_bones" -> "DEFAULT_BONES"
      [] OTHER -> str

ToUpper(name) == [k \in 1..Len(name) |-> UpperOf(name[k])]

\* translateAnimationToSK: whether the clip has a channel for some bone
translateAnimationToSK(animation, bones) ==
    \E c \in 1..Len(animation.mChannels) : \E b \in 1..Len(bones) :
        animation.mChannels[c].mNodeName = bones[b].name

\* lines 191-196: the first channel whose node name is the bone's name, 0 if none
FindChannel(animation, bone) ==
    LET hits == {c \in 1..Len(animation.mChannels) :
                    animation.mChannels[c].mNodeName = bone.name}
    IN  IF hits = {} THEN 0 ELSE CHOOSE c \in hits : \A o \in hits : c <= o

\* line 177: int nFrames = ceil(mDuration * target / source)
FrameCount(animation, settings) ==
    CeilDiv(animation.mDuration * settings.mTicksPerSecond, animation.mTicksPerSecond)

\* struct FrameData, default-constructed (lines 98-101, 179-183)
DefaultFrameData == [position |-> VecZero, rotation |-> Rot(QuatIdentity)]

\* line 209: !bone->GetParent()  (IsRootBone_Always: the test dropped)
IsRootBone_Always(bone) == TRUE

IsRootBone(bone) == bone.parent = NoParent

\* The tracks of a scene are non-decreasing, so each evaluator returns one value.
SampleVector(keys, at) == (CHOOSE r \in evaluateVectorAt(keys, Len(keys), at) : TRUE).vec

SampleQuaternion(keys, at) == (CHOOSE r \in evaluateQuaternionAt(keys, Len(keys), at) : TRUE).quat

\* lines 203-218: the frame of one bone that has a channel
SampleBone(nodeAnim, bone, animation, settings, frame) ==
    LET at == <<frame * animation.mTicksPerSecond, settings.mTicksPerSecond>>
        origin == SampleVector(nodeAnim.mPositionKeys, at)
        rotation == SampleQuaternion(nodeAnim.mRotationKeys, at)
        constRot == settings.mRotateModel
        origin2 == IF IsRootBone(bone)
                   THEN VecScale(QuatRotate(constRot, origin), settings.mModelScale)
                   ELSE origin
        rotation2 == IF IsRootBone(bone) THEN RotPremul(constRot, rotation) ELSE rotation
    IN  [position |-> VecScale(origin2, settings.mFixedPointScale), rotation |-> rotation2]

\* lines 179-219: allFrameData[frame][boneIndex], both 0-based in the source
\* (AllFrameData_Unwritten: a bone without a channel left holding other data)
AllFrameData_Unwritten(animation, bones, settings) ==
    [f \in 1..FrameCount(animation, settings) |->
        [b \in 1..Len(bones) |->
            LET c == FindChannel(animation, bones[b])
            IN  IF c = 0 THEN [position |-> Vec(7, 7, 7), rotation |-> Rot(Quat(1, 0, 0, 0, 1))]
                ELSE SampleBone(animation.mChannels[c], bones[b], animation, settings, f - 1)]]

AllFrameData(animation, bones, settings) ==
    [f \in 1..FrameCount(animation, settings) |->
        [b \in 1..Len(bones) |->
            LET c == FindChannel(animation, bones[b])
            IN  IF c = 0 THEN DefaultFrameData
                ELSE SampleBone(animation.mChannels[c], bones[b], animation, settings, f - 1)]]

\* lines 228-230: (short) of each position component
QuantizePosition(v) == <<TruncDiv(v.x, v.d), TruncDiv(v.y, v.d), TruncDiv(v.z, v.d)>>

\* lines 232-240: the three stored rotation components.  The components of a
\* spherical interpolant are not rational: its record is marked sym.
\* (QuantizeQuat_NoSignFix: the branch for w < 0 dropped)
QuantizeQuat_NoSignFix(q) ==
    <<TruncDiv(q.x * ShortMax, q.d), TruncDiv(q.y * ShortMax, q.d), TruncDiv(q.z * ShortMax, q.d)>>

QuantizeQuat(q) ==
    IF q.w < 0
    THEN <<TruncDiv((-q.x) * ShortMax, q.d), TruncDiv((-q.y) * ShortMax, q.d),
           TruncDiv((-q.z) * ShortMax, q.d)>>
    ELSE <<TruncDiv(q.x * ShortMax, q.d), TruncDiv(q.y * ShortMax, q.d),
           TruncDiv(q.z * ShortMax, q.d)>>

QuantizeRotation(r) ==
    IF r.sym THEN [sym |-> TRUE, v |-> <<0, 0, 0>>]
    ELSE [sym |-> FALSE, v |-> QuantizeQuat(r.pre)]

\* lines 221-247: the frame block, one record per frame and bone
RECURSIVE Flatten(_)
Flatten(rows) == IF rows = <<>> THEN <<>> ELSE Head(rows) \o Flatten(Tail(rows))

FrameBlock(allFrameData) ==
    Flatten([f \in 1..Len(allFrameData) |->
        [b \in 1..Len(allFrameData[f]) |->
            [pos |-> QuantizePosition(allFrameData[f][b].position),
             rot |-> QuantizeRotation(allFrameData[f][b].rotation)]]])

\* bone name prefix test of line 333
StartsWithAttachment(name) == name \in {"attachment hand"}

\* line 91: animations.push_back(header)  (PushHeader_Front: at the front)
PushHeader_Front(animations, header) == <<header>> \o animations

PushHeader(animations, header) == Append(animations, header)

\* lines 292-310, the loop: table entries and _INDEX macros, entry by entry
RECURSIVE HeaderLoop(_, _, _)
HeaderLoop(animations, index, out) ==
    IF index >= Len(animations) THEN out
    ELSE LET it == animations[index + 1]
             animationIndex == GetUniqueName(out.used, it.animationName \o <<"_INDEX">>)
         IN  HeaderLoop(animations, index + 1,
                 [used |-> out.used \cup {animationIndex},
                  table |-> Append(out.table,
                      [firstChunkSize |-> it.firstChunkSize,
                       ticksPerSecond |-> it.ticksPerSecond,
                       maxTicks |-> it.maxTicks,
                       data |-> it.animationName,
                       source |-> it.source,
                       indexMacro |-> ToUpper(animationIndex)]),
                  macros |-> Append(out.macros,
                      [name |-> ToUpper(animationIndex), value |-> index])])

\* ------------------------------------------------------------------------
\* Spec: generateAnimationForScene on a scene, a bone hierarchy and settings
\* ------------------------------------------------------------------------
QuatI == Quat(1, 0, 0, 0, 1)
QuatH == Quat(1, 1, 1, 1, 2)
QuatNegH == Quat(-1, -1, -1, -1, 2)

VKey(t, v) == [mTime |-> t, mValue |-> v]

TrackA == [mPositionKeys |-> <<VKey(0, Vec(2, 0, -4)), VKey(2, Vec(-2, 4, 6))>>,
           mRotationKeys |-> <<VKey(0, QuatIdentity), VKey(2, QuatI)>>]

TrackB == [mPositionKeys |-> <<VKey(0, Vec(1, 2, 3)), VKey(1, Vec(5, 0, -1)), VKey(2, Vec(-3, -3, 2))>>,
           mRotationKeys |-> <<VKey(0, QuatNegH)>>]

TrackC == [mPositionKeys |-> <<>>,
           mRotationKeys |-> <<VKey(1, QuatH), VKey(2, QuatNegH)>>]

Channel(name, track) == [mNodeName |-> name] @@ track

AnimationTemplates ==
    { [mName |-> "walk", mTicksPerSecond |-> 1, mChannels |-> <<Channel("a", TrackA)>>],
      [mName |-> "walk", mTicksPerSecond |-> 2,
       mChannels |-> <<Channel("x", TrackA), Channel("b", TrackC)>>],
      [mName |-> "run", mTicksPerSecond |-> 3,
       mChannels |-> <<Channel("b", TrackB), Channel("a", TrackA)>>],
      [mName |-> "run", mTicksPerSecond |-> 1, mChannels |-> <<>>],
      [mName |-> "idle", mTicksPerSecond |-> 2,
       mChannels |-> <<Channel("a", TrackC), Channel("a", TrackA)>>] }

Animations == {[mDuration |-> d] @@ t : d \in 0..MaxDuration, t \in AnimationTemplates}

\* lists of distinct animations
AnimationLists ==
    UNION {{l \in [1..n -> Animations] :
               \A i, j \in 1..n : i # j =>
                   [l[i] EXCEPT !.mDuration = 0] # [l[j] EXCEPT !.mDuration = 0]} :
           n \in 0..MaxAnims}

BoneLists ==
    { <<[name |-> "a", parent |-> NoParent], [name |-> "b", parent |-> 0]>>,
      <<[name |-> "b", parent |-> NoParent], [name |-> "attachment hand", parent |-> NoParent]>>,
      <<[name |-> "b", parent |-> NoParent], [name |-> "a", parent |-> 0]>> }

SettingsSet ==
    { [mTicksPerSecond |-> 1, mModelScale |-> 3, mRotateModel |-> QuatI, mFixedPointScale |-> 1],
      [mTicksPerSecond |-> 2, mModelScale |-> 2, mRotateModel |-> QuatH, mFixedPointScale |-> 4] }

NoV2 == [anim |-> 0, nFrames |-> 0, allFrameData |-> <<>>, framesName |-> <<>>]

Init ==
    /\ \E l \in AnimationLists : \E bl \in BoneLists : \E st \in SettingsSet :
          scene = [mAnimations |-> l, bones |-> bl, settings |-> st]
    /\ gen = [pc |-> "begin", i |-> 0, used |-> {}, definitions |-> <<>>, macros |-> <<>>,
              animations |-> <<>>, animationsName |-> <<>>, boneParentName |-> <<>>,
              table |-> <<>>, v2 |-> NoV2]
    /\ IdleEval
    /\ IdleHier

\* lines 266-287
Begin ==
    /\ gen.pc = "begin"
    /\ LET bonesName == GetUniqueName(gen.used, <<"default_bones">>)
           used1 == gen.used \cup {bonesName}
           boneParentName == GetUniqueName(used1, <<"bone_parent">>)
           used2 == used1 \cup {boneParentName}
           animationsName == GetUniqueName(used2, <<"animations">>)
       IN  gen' = [gen EXCEPT
               !.pc = "translate",
               !.used = used2 \cup {animationsName},
               !.definitions = Append(@, [name |-> bonesName, type |-> "rest pose",
                                          source |-> 0, data |-> <<>>]),
               !.macros = Append(@, [name |-> ToUpper(bonesName \o <<"_COUNT">>),
                                     value |-> Len(scene.bones)]),
               !.animationsName = animationsName,
               !.boneParentName = boneParentName]
    /\ UNCHANGED <<posKeys, rotKeys, eval, tree, hier, scene>>

\* lines 79-93: one iteration of generateAnimationData
TranslateAnimation ==
    /\ gen.pc = "translate"
    /\ gen.i < Len(scene.mAnimations)
    /\ LET animation == scene.mAnimations[gen.i + 1]
           animationName == GetUniqueName(gen.used, <<animation.mName>>)
       IN  IF translateAnimationToSK(animation, scene.bones)
           THEN gen' = [gen EXCEPT
                    !.i = @ + 1,
                    !.used = @ \cup {animationName},
                    !.definitions = Append(@, [name |-> animationName, type |-> "chunks",
                                               source |-> gen.i + 1, data |-> <<>>]),
                    !.animations = PushHeader(@,
                        [firstChunkSize |-> <<"firstChunkSize", gen.i + 1>>,
                         ticksPerSecond |-> scene.settings.mTicksPerSecond,
                         maxTicks |-> <<"maxTicks", gen.i + 1>>,
                         animationName |-> animationName,
                         source |-> gen.i + 1])]
           ELSE gen' = [gen EXCEPT !.i = @ + 1]
    /\ UNCHANGED <<posKeys, rotKeys, eval, tree, hier, scene>>

\* lines 290-313
BuildHeaderTable ==
    /\ gen.pc = "translate"
    /\ gen.i = Len(scene.mAnimations)
    /\ LET out == HeaderLoop(gen.animations, 0,
                      [used |-> gen.used, table |-> <<>>, macros |-> gen.macros])
       IN  gen' = [gen EXCEPT
               !.pc = "bones",
               !.used = out.used,
               !.table = out.table,
               !.macros = out.macros,
               !.definitions = Append(@, [name |-> gen.animationsName, type |-> "header",
                                          source |-> 0, data |-> out.table])]
    /\ UNCHANGED <<posKeys, rotKeys, eval, tree, hier, scene>>

\* lines 315-326: parent index per bone, 0xFFFF for none
BoneParentTable(bones) ==
    [b \in 1..Len(bones) |-> IF bones[b].parent # NoParent THEN bones[b].parent ELSE 65535]

\* lines 328-341
AttachmentCount(bones) == Cardinality({b \in 1..Len(bones) : StartsWithAttachment(bones[b].name)})

BoneTables ==
    /\ gen.pc = "bones"
    /\ gen' = [gen EXCEPT
           !.pc = "v2",
           !.i = 0,
           !.definitions = Append(@, [name |-> gen.boneParentName, type |-> "bone parent",
                                      source |-> 0, data |-> BoneParentTable(scene.bones)]),
           !.macros = Append(@, [name |-> <<"ATTACHMENT_COUNT">>,
                                 value |-> AttachmentCount(scene.bones)])]
    /\ UNCHANGED <<posKeys, rotKeys, eval, tree, hier, scene>>

\* lines 260-262 and 176-257: generateanimationV2 on animation i
GenerateAnimationV2 ==
    /\ gen.pc = "v2"
    /\ gen.i < Len(scene.mAnimations)
    /\ LET animation == scene.mAnimations[gen.i + 1]
           nFrames == FrameCount(animation, scene.settings)
           allFrameData == AllFrameData(animation, scene.bones, scene.settings)
           framesName == GetUniqueName(gen.used, <<animation.mName, "_data">>)
           used1 == gen.used \cup {framesName}
           clipName == GetUniqueName(used1, <<animation.mName, "_clip">>)
       IN  gen' = [gen EXCEPT
               !.i = @ + 1,
               !.used = used1 \cup {clipName},
               !.definitions = @ \o
                   << [name |-> framesName, type |-> "frames", source |-> gen.i + 1,
                       data |-> FrameBlock(allFrameData)],
                      [name |-> clipName, type |-> "clip", source |-> gen.i + 1,
                       data |-> [nFrames |-> nFrames, nBones |-> Len(scene.bones),
                                 frames |-> framesName,
                                 fps |-> scene.settings.mTicksPerSecond]] >>,
               !.v2 = [anim |-> gen.i + 1, nFrames |-> nFrames,
                       allFrameData |-> allFrameData, framesName |-> framesName]]
    /\ UNCHANGED <<posKeys, rotKeys, eval, tree, hier, scene>>

\* line 345
Return ==
    /\ gen.pc = "v2"
    /\ gen.i = Len(scene.mAnimations)
    /\ gen' = [gen EXCEPT !.pc = "done"]
    /\ UNCHANGED <<posKeys, rotKeys, eval, tree, hier, scene>>

Next ==
    \/ Begin
    \/ TranslateAnimation
    \/ BuildHeaderTable
    \/ BoneTables
    \/ GenerateAnimationV2
    \/ Return

Spec == Init /\ [][Next]_vars

\* ------------------------------------------------------------------------
\* Claims about the generator
\* ------------------------------------------------------------------------
BoneCount == Len(scene.bones)

\* the animation the last generateanimationV2 call worked on
LastAnimation == scene.mAnimations[gen.v2.anim]

DefinitionsOfType(type, source) ==
    {k \in 1..Len(gen.definitions) :
        gen.definitions[k].type = type /\ gen.definitions[k].source = source}

LastFrameBlock ==
    gen.definitions[CHOOSE k \in 1..Len(gen.definitions) :
                        gen.definitions[k].name = gen.v2.framesName].data

LastClip ==
    gen.definitions[CHOOSE k \in DefinitionsOfType("clip", gen.v2.anim) : TRUE].data

\* no channel of animation i names a bone of the canonical list
NoChannelForAnyBone(i) ==
    \A c \in 1..Len(scene.mAnimations[i].mChannels) : \A b \in 1..BoneCount :
        scene.mAnimations[i].mChannels[c].mNodeName # scene.bones[b].name

(***************************************************************************)
(* C2.  The number of frames generateanimationV2 emits, also written as    *)
(* the clip's frame count, equals ceil(duration * targetRate / sourceRate) *)
(* and is always >= 1, including for a clip whose duration is 0.           *)
(***************************************************************************)
C2_FrameCountIsCeilingAndAtLeastOne ==
    gen.v2.anim # 0 =>
        LET n == gen.v2.nFrames
            num == LastAnimation.mDuration * scene.settings.mTicksPerSecond
            den == LastAnimation.mTicksPerSecond
        IN  /\ n * den >= num
            /\ (n - 1) * den < num
            /\ LastClip.nFrames = n
            /\ n >= 1

(***************************************************************************)
(* C3.  A source animation none of whose channels names a bone produces    *)
(* zero output clips: after generateAnimationForScene no frame-data        *)
(* definition, no clip record and no header entry exists for it.           *)
(***************************************************************************)
C3_UnmatchedAnimationEmitsNothing ==
    gen.pc = "done" =>
        \A i \in 1..Len(scene.mAnimations) :
            NoChannelForAnyBone(i) =>
                /\ DefinitionsOfType("frames", i) = {}
                /\ DefinitionsOfType("clip", i) = {}
                /\ \A k \in 1..Len(gen.table) : gen.table[k].source # i

(***************************************************************************)
(* C6.  The global correction is applied to root bones only.  For a bone   *)
(* that has a parent, every frame's position and rotation are the same in  *)
(* any two configurations that differ only in model scale and root         *)
(* rotation.  For a bone without a parent that has a channel, the position *)
(* is the uncorrected position rotated by the root rotation and multiplied *)
(* by the model scale, and the rotation is premultiplied by the root       *)
(* rotation.                                                               *)
(***************************************************************************)
OtherConfigurations ==
    {[scene.settings EXCEPT !.mModelScale = sc, !.mRotateModel = r] :
        sc \in {1, 5}, r \in {QuatIdentity, QuatI, QuatNegH}}

NeutralConfiguration ==
    [scene.settings EXCEPT !.mModelScale = 1, !.mRotateModel = QuatIdentity]

FrameEq(x, y) == VecEq(x.position, y.position) /\ RotEq(x.rotation, y.rotation)

Survivors ==
    {i \in 1..Len(scene.mAnimations) :
        translateAnimationToSK(scene.mAnimations[i], scene.bones)}

C7_HeaderTableInSourceOrder ==
    gen.pc \in {"bones", "v2", "done"} =>
        /\ Len(gen.table) = Cardinality(Survivors)
        /\ {gen.table[k].source : k \in 1..Len(gen.table)} = Survivors
        /\ \A j, k \in 1..Len(gen.table) : j < k => gen.table[j].source < gen.table[k].source
        /\ \A k \in 1..Len(gen.table) :
              LET named == {m \in 1..Len(gen.macros) :
                               gen.macros[m].name = gen.table[k].indexMacro}
              IN  /\ Cardinality(named) = 1
                  /\ \A m \in named :
                        /\ gen.macros[m].value = k - 1
                        /\ gen.macros[m].value =
                               Cardinality({i \in Survivors : i < gen.table[k].source})

\* two surviving animations that carry the same name
C7_Witness ==
    /\ gen.pc = "done"
    /\ Len(gen.table) = 2
    /\ scene.mAnimations[gen.table[1].source].mName = scene.mAnimations[gen.table[2].source].mName

(***************************************************************************)
(* C8 (as amended).  For every unit quaternion (x, y, z, w) written by     *)
(* generateanimationV2 the three stored components are the truncation      *)
(* toward zero of s*x*32767, s*y*32767, s*z*32767, with s = -1 when w < 0  *)
(* and s = +1 otherwise; each lies in [-32767, 32767]; and the quaternion  *)
(* rebuilt from them with a non-negative scalar agrees with s*(x,y,z,w),   *)
(* the original up to overall sign, to within the truncation: s*w >= 0 and *)
(* each stored component is less than 1 away from s*component*32767.       *)
(***************************************************************************)
SignOf(q) == IF q.w < 0 THEN -1 ELSE 1

Abs(n) == IF n < 0 THEN -n ELSE n

\* v is n/d truncated toward zero (d > 0)
IsTruncationOf(v, n, d) ==
    /\ Abs(v) * d <= Abs(n)
    /\ Abs(n) < (Abs(v) + 1) * d
    /\ (v > 0 => n > 0)
    /\ (v < 0 => n < 0)

\* the frames and bones of the last clip whose rotation has rational components
WrittenQuaternions ==
    {fb \in (1..gen.v2.nFrames) \X (1..BoneCount) :
        ~gen.v2.allFrameData[fb[1]][fb[2]].rotation.sym}

StoredRotation(fb) == LastFrameBlock[(fb[1] - 1) * BoneCount + fb[2]].rot.v

C8_StoredComponents(fb) ==
    LET q == gen.v2.allFrameData[fb[1]][fb[2]].rotation.pre
        v == StoredRotation(fb)
        s == SignOf(q)
    IN  /\ IsTruncationOf(v[1], s * q.x * ShortMax, q.d)
        /\ IsTruncationOf(v[2], s * q.y * ShortMax, q.d)
        /\ IsTruncationOf(v[3], s * q.z * ShortMax, q.d)
        /\ \A c \in 1..3 : v[c] >= -ShortMax /\ v[c] <= ShortMax
        /\ s * q.w >= 0

C8_QuantizedRotationWithinTruncation ==
    gen.v2.anim # 0 =>
        \A fb \in WrittenQuaternions :
            IsUnit(gen.v2.allFrameData[fb[1]][fb[2]].rotation.pre) => C8_StoredComponents(fb)

\* C8 as stated: the rebuilt quaternion is equal to the original up to
\* overall sign: its vector part is exactly s*(x, y, z).
C8_QuantizedRotationRoundTripExact ==
    gen.v2.anim # 0 =>
        \A fb \in WrittenQuaternions :
            LET q == gen.v2.allFrameData[fb[1]][fb[2]].rotation.pre
                v == StoredRotation(fb)
                s == SignOf(q)
            IN  IsUnit(q) =>
                   /\ C8_StoredComponents(fb)
                   /\ v[1] * q.d = s * q.x * ShortMax
                   /\ v[2] * q.d = s * q.y * ShortMax
                   /\ v[3] * q.d = s * q.z * ShortMax

\* a unit quaternion with a negative scalar is written, and its stored
\* components are the negated, truncated ones
C8_Witness ==
    /\ gen.v2.anim # 0
    /\ \E fb \in WrittenQuaternions :
          LET q == gen.v2.allFrameData[fb[1]][fb[2]].rotation.pre
          IN  /\ IsUnit(q)
              /\ q.w < 0
              /\ q.x < 0
              /\ StoredRotation(fb)[1] > 0
              /\ StoredRotation(fb)[1] * q.d # -q.x * ShortMax

(***************************************************************************)
(* C9.  The emitted frame block is dense: it holds exactly nFrames *       *)
(* boneCount records, frame-major then by bone index, and every bone that  *)
(* no channel of the clip names holds the identity pose in every frame:    *)
(* stored position (0,0,0) and stored rotation components (0,0,0).         *)
(***************************************************************************)
C9_FrameBlockDense ==
    gen.v2.anim # 0 =>
        /\ Len(LastFrameBlock) = gen.v2.nFrames * BoneCount
        /\ \A f \in 1..gen.v2.nFrames : \A b \in 1..BoneCount :
              LET rec == LastFrameBlock[(f - 1) * BoneCount + b]
              IN  IF \A c \in 1..Len(LastAnimation.mChannels) :
                         LastAnimation.mChannels[c].mNodeName # scene.bones[b].name
                  THEN rec = [pos |-> <<0, 0, 0>>, rot |-> [sym |-> FALSE, v |-> <<0, 0, 0>>]]
                  ELSE /\ rec.pos = QuantizePosition(gen.v2.allFrameData[f][b].position)
                       /\ rec.rot = QuantizeRotation(gen.v2.allFrameData[f][b].rotation)

\* two frames of two bones, the first bone without a channel, the second
\* with one that moves it
C9_Witness ==
    /\ gen.v2.anim # 0
    /\ gen.v2.nFrames >= 2
    /\ BoneCount = 2
    /\ FindChannel(LastAnimation, scene.bones[1]) = 0
    /\ FindChannel(LastAnimation, scene.bones[2]) # 0
    /\ LastFrameBlock[2].pos # <<0, 0, 0>>
    /\ LastFrameBlock[4].pos # LastFrameBlock[2].pos

====
